---- MODULE Spec2Model ----
(***************************************************************************)
(* Model of sagemaker-python-sdk/mxnet_onnx_eia/mxnet_onnx_eia.ipynb:      *)
(* the notebook run top to bottom, one action per code cell.  A cell that  *)
(* raises stops the run (no cell contains try/except/finally).             *)
(*                                                                         *)
(* Scores are integers in units of 1e-7; tensors and images are modelled   *)
(* by their shapes; Python indices are kept 0-based (At(s, i) = s[i]).     *)
(***************************************************************************)
EXTENDS Integers, Sequences, FiniteSets, TLC

VARIABLES pc, failed, role, files, s3, model_data, mxnet_model, endpoint,
          predictor, log, img, steps, input_image, scores, kind, labelFile,
          labels, a, printed

vars == <<pc, failed, role, files, s3, model_data, mxnet_model, endpoint,
          predictor, log, img, steps, input_image, scores, kind, labelFile,
          labels, a, printed>>

\* a Python name not bound yet (strings), and the same for lists, arrays, objects
None == "None"

Unbound == <<>>

(***************************************************************************)
(* Bounds of the model and constants of the notebook                       *)
(***************************************************************************)
MaxLen == 6

ResizeSize == 256

CropSize == 224

TopK == 5

InstanceCount == 1

Channels == 3

\* score values the endpoint may return, in units of 1e-7
ScoreVals == {0, 4, 8}

\* <<height, width>> of the downloaded image
Sizes == {<<200, 300>>, <<400, 300>>, <<300, 300>>}

\* default buckets of the session
Buckets == {"bucket-a", "bucket-b"}

\* contents the model zoo may serve for resnet152v1.onnx
ModelBytes == {"onnx-bytes"}

\* how the sort of the installed numpy orders equal keys: kind='quicksort'
\* (the default of np.argsort) is not a stable sort
Kinds == {"keeps_ties", "flips_ties"}

ScoreVectors == UNION {[1..n -> ScoreVals] : n \in (TopK - 1)..MaxLen}

LabelCounts == (MaxLen - 1)..(MaxLen + 1)

(***************************************************************************)
(* Python helpers                                                          *)
(***************************************************************************)
\* s[i] of a Python list, i a 0-based index
At(s, i) == s[i + 1]

\* s[i] raises IndexError (indices produced by argsort are never negative)
IndexError(s, i) == i >= Len(s)

\* s[0:k]
Slice(s, k) == SubSeq(s, 1, IF k < Len(s) THEN k ELSE Len(s))

\* s[::-1]
ReversedForgotten(s) == s

Reversed(s) == [k \in 1..Len(s) |-> s[Len(s) + 1 - k]]

Whitespace == {" ", "\n", "\r", "\t"}

RECURSIVE rstrip(_)
\* str.rstrip(): drops the trailing whitespace, keeps the rest
rstrip(l) ==
    IF l # <<>> /\ l[Len(l)] \in Whitespace
    THEN rstrip(SubSeq(l, 1, Len(l) - 1))
    ELSE l

\* '%f' % x: x rounded to 6 decimals; the result in units of 1e-6
FormatF(x) == (x + 5) \div 10

(***************************************************************************)
(* np.argsort(scores): the indices that sort scores ascending.  Equal      *)
(* scores come out in the order the sort kind gives them.                  *)
(***************************************************************************)
Before(s, k, i, j) ==
    \/ At(s, i) < At(s, j)
    \/ /\ At(s, i) = At(s, j)
       /\ IF k = "keeps_ties" THEN i < j ELSE i > j

argsort(s, k) ==
    [p \in 1..Len(s) |->
        CHOOSE i \in 0..(Len(s) - 1) :
            Cardinality({j \in 0..(Len(s) - 1) : Before(s, k, j, i)}) = p - 1]

\* np.argsort(-scores): descending without the reversal
RankingNegated(s, k) == argsort([p \in 1..Len(s) |-> 0 - s[p]], k)

\* a = np.argsort(scores)[::-1]
Ranking(s, k) == Reversed(argsort(s, k))

(***************************************************************************)
(* The label file synset.txt: one label per line.  Line k is the label     *)
(* "n<k> x" followed by its line ending.                                   *)
(***************************************************************************)
Digits == <<"0", "1", "2", "3", "4", "5", "6", "7", "8", "9">>

LineEnd(k) ==
    CASE k % 3 = 0 -> <<"\n">>
      [] k % 3 = 1 -> <<" ", "\n">>
      [] OTHER     -> <<"\r", "\n">>

SynsetLine(k) == <<"n", Digits[k + 1], " ", "x">> \o LineEnd(k)

SynsetFile(m) == [k \in 1..m |-> SynsetLine(k - 1)]

ReadLabelsSkipFirst(f) == [k \in 1..(Len(f) - 1) |-> rstrip(f[k + 1])]

\* [l.rstrip() for l in f]
ReadLabels(f) == [k \in 1..Len(f) |-> rstrip(f[k])]

(***************************************************************************)
(* The transforms of preprocess, on shapes.  An image is <<h, w, c>>.      *)
(***************************************************************************)
\* transforms.Resize(size, keep_ratio=True): the short edge becomes size
ResizeKeepRatio(x, size) ==
    IF x[1] > x[2]
    THEN <<(x[1] * size) \div x[2], size, x[3]>>
    ELSE <<size, (x[2] * size) \div x[1], x[3]>>

\* transforms.Resize(size) with an int size and the default keep_ratio=False:
\* both edges become size
Resize(x, size) == <<size, size, x[3]>>

\* mx.image.scale_down((sw, sh), (w, h)), as <<w, h>>
scale_down(sw, sh, w, h) ==
    LET w1 == IF sh < h THEN (w * sh) \div h ELSE w
        h1 == IF sh < h THEN sh ELSE h
        w2 == IF sw < w1 THEN sw ELSE w1
        h2 == IF sw < w1 THEN (h1 * sw) \div w1 ELSE h1
    IN  <<w2, h2>>

\* transforms.CenterCrop(size): the centred window given by scale_down,
\* resized to size x size when the window is smaller (fixed_crop)
CenterCrop(x, size) ==
    LET new == scale_down(x[2], x[1], size, size)
        x0  == (x[2] - new[1]) \div 2
        y0  == (x[1] - new[2]) \div 2
    IN  IF x0 >= 0 /\ y0 >= 0 THEN <<size, size, x[3]>> ELSE Unbound

ToTensorNoTranspose(x) == x

\* transforms.ToTensor(): HWC uint8 to CHW float32
ToTensor(x) == <<x[3], x[1], x[2]>>

\* transforms.Normalize(mean, std): per channel, the shape is kept
Normalize(x) == x

\* img.expand_dims(axis=0)
expand_dims(x) == <<1>> \o x

\* the shapes after Resize, CenterCrop, ToTensor and Normalize
Transforms(x) ==
    LET r == Resize(x, ResizeSize)
        c == CenterCrop(r, CropSize)
        t == ToTensor(c)
        n == Normalize(t)
    IN  <<r, c, t, n>>

(***************************************************************************)
(* SDK calls                                                               *)
(***************************************************************************)
\* the S3 URI upload_data returns for a path and a key prefix
S3Uri(bucket, key_prefix, path) == <<"s3:", bucket, key_prefix, path>>

MXNetModelOtherData(md, entry_point, r) ==
    [model_data |-> <<"s3:", "bucket-a", "model", "model.tar.gz">>,
     entry_point |-> entry_point, role |-> r,
     py_version |-> "py3", framework_version |-> "1.4.1"]

MXNetModel(md, entry_point, r) ==
    [model_data |-> md, entry_point |-> entry_point, role |-> r,
     py_version |-> "py3", framework_version |-> "1.4.1"]

WriteFile(fs, name, body) ==
    [n \in (DOMAIN fs) \cup {name} |-> IF n = name THEN body ELSE fs[n]]

Call(op, ok) == [op |-> op, ok |-> ok, endpoint |-> endpoint]

(***************************************************************************)
(* The cells, in notebook order                                            *)
(***************************************************************************)
Cells == <<"role", "show_script", "download_model", "archive_upload",
           "create_model", "deploy", "load_image", "preprocess", "predict",
           "rank", "delete">>

CellNo(c) == CHOOSE k \in 1..Len(Cells) : Cells[k] = c

NextCellSkipsDelete(c) ==
    IF c = "rank" \/ c = "delete" THEN "done" ELSE Cells[CellNo(c) + 1]

NextCellDeleteFirst(c) ==
    CASE c = "preprocess" -> "delete"
      [] c = "delete"     -> "predict"
      [] c = "rank"       -> "done"
      [] OTHER            -> Cells[CellNo(c) + 1]

\* the cell run after cell c
NextCell(c) == IF CellNo(c) = Len(Cells) THEN "done" ELSE Cells[CellNo(c) + 1]

\* the cells whose remote call is recorded in log
RemoteOp(c) ==
    CASE c = "archive_upload" -> "upload"
      [] c = "deploy"         -> "deploy"
      [] c = "predict"        -> "predict"
      [] c = "delete"         -> "delete"
      [] OTHER                -> None

Init ==
    /\ pc = "role"
    /\ failed = FALSE
    /\ role = None
    /\ files = [n \in {"resnet152.py"} |-> [bytes |-> "script"]]
    /\ s3 = {}
    /\ model_data = Unbound
    /\ mxnet_model = Unbound
    /\ endpoint = "none"
    /\ predictor = Unbound
    /\ log = <<>>
    /\ img = Unbound
    /\ steps = <<>>
    /\ input_image = Unbound
    /\ scores = <<>>
    /\ kind \in Kinds
    /\ labelFile = <<>>
    /\ labels = <<>>
    /\ a = <<>>
    /\ printed = <<>>

\* role = get_execution_role()
GetRole ==
    /\ pc = "role" /\ ~failed
    /\ role' = "execution-role"
    /\ pc' = NextCell(pc)
    /\ UNCHANGED <<failed, files, s3, model_data, mxnet_model, endpoint,
                   predictor, log, img, steps, input_image, scores, kind,
                   labelFile, labels, a, printed>>

\* !pygmentize resnet152.py
ShowScript ==
    /\ pc = "show_script" /\ ~failed
    /\ pc' = NextCell(pc)
    /\ UNCHANGED <<failed, role, files, s3, model_data, mxnet_model, endpoint,
                   predictor, log, img, steps, input_image, scores, kind,
                   labelFile, labels, a, printed>>

\* mx.test_utils.download('.../resnet152v1.onnx')
DownloadModel ==
    /\ pc = "download_model" /\ ~failed
    /\ \E b \in ModelBytes :
          files' = WriteFile(files, "resnet152v1.onnx", [bytes |-> b])
    /\ pc' = NextCell(pc)
    /\ UNCHANGED <<failed, role, s3, model_data, mxnet_model, endpoint,
                   predictor, log, img, steps, input_image, scores, kind,
                   labelFile, labels, a, printed>>

\* tarfile.open(..., mode='w:gz') with archive.add(name)
TarAdd(fs, name) == [members |-> {[name |-> name, body |-> fs[name]]}]

\* the archive cell: tar the model file, upload the archive, keep the URI
ArchiveUpload ==
    /\ pc = "archive_upload" /\ ~failed
    /\ "resnet152v1.onnx" \in DOMAIN files
    /\ \E bucket \in Buckets :
          LET fs  == WriteFile(files, "onnx_model.tar.gz",
                               TarAdd(files, "resnet152v1.onnx"))
              uri == S3Uri(bucket, "model", "onnx_model.tar.gz")
          IN  /\ files' = fs
              /\ s3' = s3 \cup {[uri |-> uri, body |-> fs["onnx_model.tar.gz"]]}
              /\ model_data' = uri
    /\ log' = Append(log, Call("upload", TRUE))
    /\ pc' = NextCell(pc)
    /\ UNCHANGED <<failed, role, mxnet_model, endpoint, predictor, img, steps,
                   input_image, scores, kind, labelFile, labels, a, printed>>

\* mxnet_model = MXNetModel(model_data=model_data, ...)
CreateModel ==
    /\ pc = "create_model" /\ ~failed
    /\ mxnet_model' = MXNetModel(model_data, "resnet152.py", role)
    /\ pc' = NextCell(pc)
    /\ UNCHANGED <<failed, role, files, s3, model_data, endpoint, predictor,
                   log, img, steps, input_image, scores, kind, labelFile,
                   labels, a, printed>>

\* predictor = mxnet_model.deploy(...): blocks until the endpoint is in service
Deploy ==
    /\ pc = "deploy" /\ ~failed
    /\ endpoint' = "live"
    /\ predictor' = [model_data |-> mxnet_model.model_data,
                     initial_instance_count |-> InstanceCount,
                     instance_type |-> "ml.m5.xlarge",
                     accelerator_type |-> "ml.eia1.medium"]
    /\ log' = Append(log, Call("deploy", TRUE))
    /\ pc' = NextCell(pc)
    /\ UNCHANGED <<failed, role, files, s3, model_data, mxnet_model, img,
                   steps, input_image, scores, kind, labelFile, labels, a,
                   printed>>

\* img = mx.image.imread(download(...)): imread decodes to 3 channels
LoadImage ==
    /\ pc = "load_image" /\ ~failed
    /\ \E hw \in Sizes : img' = <<hw[1], hw[2], Channels>>
    /\ pc' = NextCell(pc)
    /\ UNCHANGED <<failed, role, files, s3, model_data, mxnet_model, endpoint,
                   predictor, log, steps, input_image, scores, kind,
                   labelFile, labels, a, printed>>

\* input_image = preprocess(img)
Preprocess ==
    /\ pc = "preprocess" /\ ~failed
    /\ steps' = Transforms(img)
    /\ input_image' = expand_dims(Transforms(img)[4])
    /\ pc' = NextCell(pc)
    /\ UNCHANGED <<failed, role, files, s3, model_data, mxnet_model, endpoint,
                   predictor, log, img, scores, kind, labelFile, labels, a,
                   printed>>

\* scores = predictor.predict(input_image.asnumpy())
Predict ==
    /\ pc = "predict" /\ ~failed
    /\ IF endpoint = "live"
       THEN /\ \E s \in ScoreVectors : scores' = s
            /\ log' = Append(log, Call("predict", TRUE))
            /\ pc' = NextCell(pc)
            /\ UNCHANGED failed
       ELSE /\ log' = Append(log, Call("predict", FALSE))
            /\ failed' = TRUE
            /\ UNCHANGED <<pc, scores>>
    /\ UNCHANGED <<role, files, s3, model_data, mxnet_model, endpoint,
                   predictor, img, steps, input_image, kind, labelFile,
                   labels, a, printed>>

\* the row printed for index i
Row(ls, sc, i) == [class |-> At(ls, i), probability |-> FormatF(At(sc, i))]

\* the positions of the loop over a[0:5] at which labels[i] raises
Raising(ls, top) == {p \in 1..Len(top) : IndexError(ls, top[p])}

RowsAllOrNothing(ls, sc, top) ==
    IF Raising(ls, top) = {} THEN [p \in 1..Len(top) |-> Row(ls, sc, top[p])]
    ELSE <<>>

\* the rows printed by the loop: all of them, or those before the first raise
Rows(ls, sc, top) ==
    LET bad  == Raising(ls, top)
        stop == IF bad = {} THEN Len(top)
                ELSE (CHOOSE p \in bad : \A q \in bad : p <= q) - 1
    IN  [p \in 1..stop |-> Row(ls, sc, top[p])]

\* the ranking cell: read synset.txt, argsort, print the first five
Rank ==
    /\ pc = "rank" /\ ~failed
    /\ \E m \in LabelCounts :
       \E f \in {SynsetFile(m)} :
       \E ls \in {ReadLabels(f)}, srt \in {Ranking(scores, kind)} :
       \E top \in {Slice(srt, TopK)} :
       \E raised \in {Raising(ls, top) # {}} :
          /\ labelFile' = f
          /\ labels' = ls
          /\ a' = srt
          /\ printed' = Rows(ls, scores, top)
          /\ failed' = raised
          /\ pc' = IF raised THEN pc ELSE NextCell(pc)
    /\ UNCHANGED <<role, files, s3, model_data, mxnet_model, endpoint,
                   predictor, log, img, steps, input_image, scores, kind>>

\* predictor.delete_endpoint()
Delete ==
    /\ pc = "delete" /\ ~failed
    /\ IF endpoint = "live"
       THEN /\ endpoint' = "deleted"
            /\ log' = Append(log, Call("delete", TRUE))
            /\ pc' = NextCell(pc)
            /\ UNCHANGED failed
       ELSE /\ log' = Append(log, Call("delete", FALSE))
            /\ failed' = TRUE
            /\ UNCHANGED <<pc, endpoint>>
    /\ UNCHANGED <<role, files, s3, model_data, mxnet_model, predictor, img,
                   steps, input_image, scores, kind, labelFile, labels, a,
                   printed>>

\* the cells in which a call to a library or a remote service may raise
Fallible == {"role", "download_model", "archive_upload", "deploy",
             "load_image", "preprocess", "predict", "rank", "delete"}

CellFailsWithCleanup ==
    /\ pc \in Fallible /\ ~failed
    /\ failed' = TRUE
    /\ endpoint' = IF endpoint = "live" THEN "deleted" ELSE endpoint
    /\ log' = IF endpoint = "live" THEN Append(log, Call("delete", TRUE))
              ELSE log
    /\ UNCHANGED <<pc, role, files, s3, model_data, mxnet_model, predictor,
                   img, steps, input_image, scores, kind, labelFile, labels,
                   a, printed>>

\* an exception raised by the running cell: nothing catches it, the run stops
\* with the state as the cell found it
CellFails ==
    /\ pc \in Fallible /\ ~failed
    /\ failed' = TRUE
    /\ log' = IF RemoteOp(pc) # None THEN Append(log, Call(RemoteOp(pc), FALSE))
              ELSE log
    /\ UNCHANGED <<pc, role, files, s3, model_data, mxnet_model, endpoint,
                   predictor, img, steps, input_image, scores, kind,
                   labelFile, labels, a, printed>>

Next ==
    \/ CellFails
    \/ GetRole
    \/ ShowScript
    \/ DownloadModel
    \/ ArchiveUpload
    \/ CreateModel
    \/ Deploy
    \/ LoadImage
    \/ Preprocess
    \/ Predict
    \/ Rank
    \/ Delete

Spec == Init /\ [][Next]_vars

\* "Run All" runs the next cell as long as none has raised
FairSpec == Spec /\ WF_vars(Next)

(***************************************************************************)
(* Properties                                                              *)
(***************************************************************************)
\* the ranking cell got as far as the loop
RankRan == a # <<>>

\* the ranking cell raised IndexError in the loop
RankRaised == RankRan /\ failed /\ pc = "rank"

\* the indices the loop iterates: a[0:5]
Top == Slice(a, TopK)

InTop(i) == \E p \in 1..Len(Top) : Top[p] = i

Pos(i) == CHOOSE p \in 1..Len(Top) : Top[p] = i

Indices == 0..(Len(scores) - 1)

\* the run is past cell c
Past(c) == pc = "done" \/ CellNo(pc) > CellNo(c)

\* C1: for a score vector of at least 5 entries and as many labels, the
\* ranking step prints exactly 5 pairs, of 5 different entries, with scores
\* in non-increasing order, and no entry left out has a score strictly
\* greater than a printed one.
C1_Top5Descending ==
    (RankRan /\ Len(scores) >= TopK /\ Len(labels) = Len(scores)) =>
        /\ ~RankRaised
        /\ Len(printed) = TopK
        /\ \A p, q \in 1..TopK : p # q => Top[p] # Top[q]
        /\ \A p \in 1..(TopK - 1) :
              /\ At(scores, Top[p]) >= At(scores, Top[p + 1])
              /\ printed[p].probability >= printed[p + 1].probability
        /\ \A j \in Indices : ~InTop(j) =>
              \A p \in 1..TopK : At(scores, j) <= At(scores, Top[p])

\* a 6-entry vector whose smallest entry is the one left out
C1_Witness ==
    /\ RankRan /\ Len(scores) = TopK + 1 /\ Len(labels) = Len(scores)
    /\ Len(printed) = TopK
    /\ \E j \in Indices :
          /\ ~InTop(j)
          /\ \A p \in 1..TopK : At(scores, j) < At(scores, Top[p])
    /\ At(scores, Top[1]) > At(scores, Top[TopK])

\* C2 as stated: of two entries with equal scores the one with the lower
\* index comes first in the output, and is the one kept if only one fits.
C2_TiesInOriginalOrder ==
    RankRan =>
        \A i, j \in Indices :
            (i < j /\ At(scores, i) = At(scores, j)) =>
                /\ (InTop(i) /\ InTop(j)) => Pos(i) < Pos(j)
                /\ InTop(j) => InTop(i)

\* C2 amended: the output is argsort's ascending order read backwards, so
\* tied entries come out in the reverse of the order argsort gave them;
\* where the sort keeps ties in original order, the entry with the HIGHER
\* index comes first, and is the one kept if only one fits.
C2_TiesReversed ==
    RankRan =>
        /\ \A p \in 1..Len(a) : a[p] = argsort(scores, kind)[Len(a) + 1 - p]
        /\ kind = "keeps_ties" =>
              \A i, j \in Indices :
                  (i < j /\ At(scores, i) = At(scores, j)) =>
                      /\ (InTop(i) /\ InTop(j)) => Pos(j) < Pos(i)
                      /\ InTop(i) => InTop(j)

\* a tie under the order-keeping sort, with only the higher index printed
C2_Witness ==
    /\ RankRan /\ kind = "keeps_ties" /\ Len(printed) = TopK
    /\ \E i, j \in Indices :
          /\ i < j /\ At(scores, i) = At(scores, j)
          /\ InTop(j) /\ ~InTop(i)

\* C3 as stated: whenever the label list and the score vector differ in
\* length, the ranking step raises IndexError and prints no complete top 5.
C3_MismatchAlwaysFails ==
    (RankRan /\ Len(labels) # Len(scores)) =>
        (RankRaised /\ Len(printed) < TopK)

\* C3 amended: nothing compares the two lengths; the ranking step raises
\* exactly when one of the indices in a[0:5] is not below len(labels), after
\* printing the pairs before the first such index.  A label list at least as
\* long as the score vector never raises.
C3_FailsOnlyOnLookup ==
    RankRan =>
        /\ RankRaised <=> (\E p \in 1..Len(Top) : Top[p] >= Len(labels))
        /\ \A p \in 1..Len(Top) :
              (\A q \in 1..p : Top[q] < Len(labels)) <=> p <= Len(printed)
        /\ Len(printed) <= Len(Top)
        /\ Len(labels) >= Len(scores) => ~RankRaised

\* a shorter label list that raises after a first pair, on the way to C3
C3_Witness ==
    /\ RankRaised /\ Len(labels) < Len(scores)
    /\ Len(printed) > 0 /\ Len(printed) < TopK

\* C4: for a 3-channel image whose shortest side is at least 256,
\* preprocess returns a tensor of shape (1, 3, 224, 224).
C4_Shape ==
    (Past("preprocess") /\ img[3] = 3 /\ img[1] >= ResizeSize
                        /\ img[2] >= ResizeSize) =>
        input_image = <<1, 3, 224, 224>>

\* a 400 x 300 image preprocessed
C4_Witness ==
    /\ Past("preprocess")
    /\ img = <<400, 300, 3>>
    /\ input_image = <<1, 3, 224, 224>>

\* C5 as stated: Resize makes the shortest side 256 and keeps the aspect
\* ratio, the longer side becoming 256 * max(h, w) / min(h, w).
C5_ResizeKeepsRatio ==
    Past("preprocess") =>
        LET h == img[1]
            w == img[2]
            r == steps[1]
        IN  IF h > w
            THEN r[2] = ResizeSize /\ r[1] = (ResizeSize * h) \div w
            ELSE r[1] = ResizeSize /\ r[2] = (ResizeSize * w) \div h

\* C5 amended: Resize(256) makes the image 256 x 256 whatever h and w (the
\* aspect ratio is kept only when h = w), and the 224 x 224 centre crop is
\* taken from that.
C5_ResizeSquare ==
    Past("preprocess") =>
        /\ steps[1] = <<256, 256, img[3]>>
        /\ steps[2] = <<224, 224, img[3]>>

\* an image that is not square resized to a square
C5_Witness ==
    /\ Past("preprocess")
    /\ img[1] # img[2]
    /\ steps[1] = <<256, 256, 3>>

Ops == [k \in 1..Len(log) |-> log[k].op]

Order == <<"upload", "deploy", "predict", "delete">>

\* C6: the remote calls are issued in the order upload, deploy, predict,
\* delete, each after the one before it completed; predict and delete are
\* issued only on a live endpoint; the endpoint is created at most once and
\* torn down at most once.
C6_Lifecycle ==
    /\ Len(log) <= Len(Order)
    /\ \A k \in 1..Len(log) : Ops[k] = Order[k]
    /\ \A k \in 1..(Len(log) - 1) : log[k].ok
    /\ \A k \in 1..Len(log) :
          /\ Ops[k] \in {"predict", "delete"} => log[k].endpoint = "live"
          /\ Ops[k] \in {"upload", "deploy"} => log[k].endpoint = "none"
    /\ endpoint = "live" <=>
          /\ \E k \in 1..Len(log) : Ops[k] = "deploy" /\ log[k].ok
          /\ ~\E k \in 1..Len(log) : Ops[k] = "delete" /\ log[k].ok
    /\ endpoint = "deleted" =>
          \E k \in 1..Len(log) : Ops[k] = "delete" /\ log[k].ok

\* a complete run: the four calls, all completed
C6_Witness ==
    /\ pc = "done"
    /\ Len(log) = 4
    /\ \A k \in 1..4 : log[k].ok

\* the cells between deploy and teardown
Between == {"load_image", "preprocess", "predict", "rank"}

LeakInv ==
    /\ (failed /\ pc \in Between) =>
          /\ endpoint = "live"
          /\ \A k \in 1..Len(log) : log[k].op # "delete"
    /\ (failed /\ ~Past("deploy")) => endpoint = "none"

\* C7: a failure of a step between deploy and teardown stops the run there
\* with the endpoint live and delete_endpoint never executed, in that state
\* and every later one; a failure of upload or deploy leaves no endpoint.
C7_LeakOnFailure == [](LeakInv) /\ [][failed => UNCHANGED vars]_vars

\* the run stopped at predict with the endpoint live
C7_Witness == failed /\ pc = "predict" /\ endpoint = "live"

\* C8: a run in which no step fails terminates with delete_endpoint executed
\* exactly once and the endpoint no longer live.
C8_ReleaseOnSuccess ==
    <>(failed \/ (/\ pc = "done"
                  /\ endpoint = "deleted"
                  /\ Cardinality({k \in 1..Len(log) : log[k].op = "delete"}) = 1))

\* a run that ended without a failure
C8_Witness == pc = "done" /\ ~failed /\ endpoint = "deleted"

\* C9: the URI returned by the upload is the model_data of the model, and
\* of the deployment; the object stored there is the archive, which holds
\* the downloaded resnet152v1.onnx.
C9_ArtifactPassThrough ==
    Past("create_model") =>
        /\ mxnet_model.model_data = model_data
        /\ Past("deploy") => predictor.model_data = model_data
        /\ \E o \in s3 :
              /\ o.uri = model_data
              /\ o.body = files["onnx_model.tar.gz"]
              /\ o.body.members = {[name |-> "resnet152v1.onnx",
                                    body |-> files["resnet152v1.onnx"]]}

\* a model deployed from the archive uploaded to the second bucket
C9_Witness ==
    /\ Past("deploy")
    /\ predictor.model_data = <<"s3:", "bucket-b", "model", "onnx_model.tar.gz">>
    /\ \E o \in s3 : o.uri = predictor.model_data

\* the label written on line k of synset.txt (k from 0)
LabelOfLine(k) == <<"n", Digits[k + 1], " ", "x">>

====
